---- MODULE Spec2Model ----
(***************************************************************************)
(* Model of the orchestration engine of megalinter/MegaLinter.py: the      *)
(* registry of linters (self.linters), the selection of the active         *)
(* linters, the serial and the multiprocessing-pool execution of their     *)
(* run() contract, the write-back of the pool results into the registry,   *)
(* and the fold of the linters' results into the run status.               *)
(***************************************************************************)
EXTENDS Integers, Sequences, FiniteSets, TLC

\* ---------------------------------------------------------------- bounds
MaxLinters == 3
MaxDescriptor == 2
MaxOrder == 1
CpuCount == 2

Names == 1..MaxLinters
Descriptors == 1..MaxDescriptor
Orders == 0..MaxOrder

\* What one call of Linter.run() may leave in the linter's result state.
LinterOutcomes ==
    { [status |-> "success", return_code |-> 0, number_fixed |-> 0],
      [status |-> "success", return_code |-> 0, number_fixed |-> 1],
      [status |-> "error", return_code |-> 1, number_fixed |-> 0] }

VARIABLES
    linters,             \* self.linters: the registry, a list of linter objects
    PARALLEL,            \* config.get("PARALLEL", "true") == "true"
    pc,                  \* where Megalinter.run() stands
    active_linters,      \* run(): the local list of active linters (by name)
    linters_do_fixes,    \* run(): the local flag
    mode,                \* which of process_linters_serial / _parallel was called
    serial_idx,          \* process_linters_serial: index of the linter being run
    tasks,               \* process_linters_parallel: one pool task per linter group
    status,              \* self.status
    return_code,         \* self.return_code
    has_updated_sources, \* self.has_updated_sources
    pool,                \* process_linters_parallel: the pool's process count, 0 without a pool
    runs,                \* history: the outcomes of the run() calls made on each linter
    linters0,            \* history: the registry as it was when the scheduler was called
    reordered,           \* history: a group returned before an earlier submitted one
    cli,                 \* self.cli
    DISABLE_ERRORS,      \* config.get("DISABLE_ERRORS", "false") == "true"
    fail_if_updated_sources, \* self.fail_if_updated_sources
    exit_code,           \* the argument of sys.exit, once pc = "exited"
    arg_input,           \* self.arg_input: {} for None, else the set of the one string
    default_workspace,   \* config.get("DEFAULT_WORKSPACE", "")
    github_workspace,    \* config.get("GITHUB_WORKSPACE", "")
    dirs,                \* the file system: the directories that were created
    workspace,           \* self.workspace
    ws_rule,             \* history: the return statement of get_workspace that was taken
    error,               \* the message of the exception that ended the program, "" without one
    FILES_TO_LINT,       \* config.get_list("MEGALINTER_FILES_TO_LINT", [])
    VALIDATE_ALL_CODEBASE, \* config: FALSE when VALIDATE_ALL_CODEBASE is "false"
    validate_all_code_base, \* self.validate_all_code_base
    ignore_gitignore_files, \* self.ignore_gitignore_files
    tree,                \* the file system: the regular files under the workspace
    git,                 \* the repository and what its git commands answer
    all_files,           \* collect_files: all_files after sorted(set(...))
    ignored_files,       \* collect_files: ignored_files
    filtered_files,      \* collect_files: filtered_files
    has_git_extraheader, \* self.has_git_extraheader
    extraheader,         \* the value of http.extraheader in the repository's git config
    log,                 \* the warnings logged
    git_calls,           \* history: the git commands that were called
    outcomes             \* what a call of Linter.run() may leave in the result state

exitVars == << cli, DISABLE_ERRORS, fail_if_updated_sources, exit_code >>
wsVars ==
    << arg_input, default_workspace, github_workspace, dirs, workspace, ws_rule, error >>

fileVars ==
    << FILES_TO_LINT, VALIDATE_ALL_CODEBASE, validate_all_code_base,
       ignore_gitignore_files, tree, git,
       all_files, ignored_files, filtered_files, has_git_extraheader, extraheader,
       log, git_calls >>

vars == << linters, PARALLEL, pc, active_linters, linters_do_fixes, mode,
           serial_idx, tasks, pool, status, return_code, has_updated_sources,
           runs, linters0, reordered, exitVars, wsVars, fileVars, outcomes >>

\* ------------------------------------------------------------- sequences
Range(s) == { s[i] : i \in DOMAIN s }

RECURSIVE Flatten(_)
Flatten(ss) == IF ss = << >> THEN << >> ELSE Head(ss) \o Flatten(Tail(ss))

\* Python compares the key tuples lexicographically.
LexLess(p, q) == \/ p[1] < q[1]
                 \/ (p[1] = q[1] /\ p[2] < q[2])

\* sorted(list, key=...): the stable order of the indices of a list whose
\* elements have the keys `keys`.
RECURSIVE SortPerm(_)
SortPerm(keys) ==
    IF keys = << >> THEN << >>
    ELSE LET n == Len(keys)
             front == SortPerm(SubSeq(keys, 1, n - 1))
             later == { j \in DOMAIN front : LexLess(keys[n], keys[front[j]]) }
             p == IF later = {} THEN n
                  ELSE CHOOSE j \in later : \A k \in later : j <= k
         IN SubSeq(front, 1, p - 1) \o << n >> \o SubSeq(front, p, Len(front))

SortedBy(s, keys) == LET perm == SortPerm(keys) IN [ k \in DOMAIN s |-> s[perm[k]] ]

\* ---------------------------------------------------------------- linters
\* A linter object as the constructor leaves it.
NewLinter(n, d, o, f) ==
    [ name |-> n, descriptor_id |-> d, processing_order |-> o, apply_fixes |-> f,
      is_active |-> TRUE, status |-> "success", return_code |-> 0,
      number_fixed |-> 0, ran |-> 0, files |-> << >>, lint_all_files |-> FALSE ]

\* load_linters: key=lambda l: (l.processing_order, l.descriptor_id)
LoadKey(l) == << l.processing_order, l.descriptor_id >>

LoadLinters(all_linters) ==
    SortedBy(all_linters, [ i \in DOMAIN all_linters |-> LoadKey(all_linters[i]) ])

\* run(): key=lambda l: (l.descriptor_id, l.name)
ReportKey(l) == << l.descriptor_id, l.name >>

IndexOf(reg, n) == CHOOSE i \in DOMAIN reg : reg[i].name = n
Obj(reg, n) == reg[IndexOf(reg, n)]

\* Linter.run(): fills the result state of the object it is called on.
Ran(l, o) ==
    [ l EXCEPT !.status = o.status, !.return_code = o.return_code,
               !.number_fixed = o.number_fixed, !.ran = @ + 1 ]

\* ------------------------------------------------------------ get_workspace
\* constants.DEFAULT_DOCKER_WORKSPACE_DIR
DEFAULT_DOCKER_WORKSPACE_DIR == "/tmp/lint"

\* os.path.sep
Sep == "/"

\* The working directory of the process, which relative paths start from.
Cwd == "/cwd"

\* The kernel's reading of a path: repeated separators count as one.
RECURSIVE Collapse(_)
Collapse(p) ==
    IF Len(p) < 2 THEN p
    ELSE IF SubSeq(p, 1, 1) = Sep /\ SubSeq(p, 2, 2) = Sep
         THEN Collapse(SubSeq(p, 2, Len(p)))
         ELSE SubSeq(p, 1, 1) \o Collapse(SubSeq(p, 2, Len(p)))

\* The absolute path that a non-empty path names.
Canonical(p) ==
    IF SubSeq(p, 1, 1) = Sep THEN Collapse(p) ELSE Collapse(Cwd \o Sep \o p)

\* The directory c is d or one of the directories above d.
IsOrContains(c, d) ==
    \/ c = d
    \/ Len(d) > Len(c) /\ SubSeq(d, 1, Len(c) + 1) = c \o Sep

\* os.path.isdir(p), in the file system where the directories fs were made
\* (with their parents) and where the working directory exists.
IsDir(p, fs) ==
    /\ p # ""
    /\ \E d \in fs \cup { Cwd } : IsOrContains(Canonical(p), d)

\* What get_workspace ends with: `return path` (by the rule-th return
\* statement) or an exception.
Return(rule, path) == [ returns |-> TRUE, rule |-> rule, path |-> path, message |-> "" ]
Raise(message) == [ returns |-> FALSE, rule |-> 0, path |-> "", message |-> message ]

\* The message of the AssertionError of the input argument.
InputNotFound(input) ==
    "--input directory not found at " \o DEFAULT_DOCKER_WORKSPACE_DIR \o "/" \o input

\* Mutant of WorkspaceNotFound: the message names DEFAULT_WORKSPACE only.
WorkspaceNotFoundDefaultOnly(dw, gw) ==
    "[Context] Unable to find a workspace to lint \nDEFAULT_WORKSPACE: " \o dw

\* The message of the FileNotFoundError raised when no branch is taken.
WorkspaceNotFound(dw, gw) ==
    "[Context] Unable to find a workspace to lint \nDEFAULT_WORKSPACE: " \o dw
        \o "\nGITHUB_WORKSPACE: " \o gw

\* get_workspace, the branches without input argument.
AmbientWorkspace(dw, gw, fs) ==
    IF dw = "" /\ gw # "" /\ IsDir(gw \o DEFAULT_DOCKER_WORKSPACE_DIR, fs)
    THEN Return(2, gw \o DEFAULT_DOCKER_WORKSPACE_DIR)
    ELSE IF dw # "" /\ IsDir(DEFAULT_DOCKER_WORKSPACE_DIR \o Sep \o dw, fs)
    THEN Return(3, dw \o DEFAULT_DOCKER_WORKSPACE_DIR \o Sep \o dw)
    ELSE IF dw # "" /\ IsDir(dw, fs)
    THEN Return(4, dw)
    ELSE IF IsDir(DEFAULT_DOCKER_WORKSPACE_DIR, fs)
    THEN Return(5, DEFAULT_DOCKER_WORKSPACE_DIR)
    ELSE IF dw # "" /\ gw # "" /\ IsDir(gw \o Sep \o dw, fs)
    THEN Return(6, gw \o Sep \o dw)
    ELSE IF dw = "" /\ gw # "" /\ gw # "/" /\ IsDir(gw, fs)
    THEN Return(7, gw)
    ELSE Raise(WorkspaceNotFound(dw, gw))

\* Mutant of InputWorkspace: an input directory that is not found leaves the
\* choice to the other branches.
InputWorkspaceOrAmbient(input, dw, gw, fs) ==
    IF IsDir(input, fs) THEN Return(1, input)
    ELSE IF IsDir(DEFAULT_DOCKER_WORKSPACE_DIR \o "/" \o input, fs)
    THEN Return(1, DEFAULT_DOCKER_WORKSPACE_DIR \o "/" \o input)
    ELSE AmbientWorkspace(dw, gw, fs)

\* get_workspace, the branch of the input argument; the assert raises
\* AssertionError.
InputWorkspace(input, dw, gw, fs) ==
    IF IsDir(input, fs) THEN Return(1, input)
    ELSE IF IsDir(DEFAULT_DOCKER_WORKSPACE_DIR \o "/" \o input, fs)
    THEN Return(1, DEFAULT_DOCKER_WORKSPACE_DIR \o "/" \o input)
    ELSE Raise(InputNotFound(input))

\* get_workspace; arg is {} for None.
GetWorkspaceResult(arg, dw, gw, fs) ==
    IF arg # {}
    THEN InputWorkspace(CHOOSE a \in arg : TRUE, dw, gw, fs)
    ELSE AmbientWorkspace(dw, gw, fs)

\* A run in the container, without input argument nor workspace variables:
\* the workspace is the container's directory.
InitContainerWorkspace ==
    /\ arg_input = {}
    /\ default_workspace = ""
    /\ github_workspace = ""
    /\ dirs = { DEFAULT_DOCKER_WORKSPACE_DIR }
    /\ workspace = GetWorkspaceResult(arg_input, default_workspace, github_workspace, dirs).path
    /\ ws_rule = 5
    /\ error = ""

\* A repository where every git command succeeds, with nothing to report.
CleanRepository ==
    [ repo |-> "ok", bearer |-> FALSE, cached |-> TRUE, fetch_ok |-> TRUE,
      diff_ok |-> TRUE, diff |-> << >>, ls_ok |-> TRUE, ignored |-> {} ]

\* The default configuration of the file listing (all the files, without the
\* git ignored ones) in a clean repository that holds the one file "a".
InitFullScan ==
    /\ FILES_TO_LINT = << >>
    /\ VALIDATE_ALL_CODEBASE = TRUE
    /\ validate_all_code_base = TRUE
    /\ ignore_gitignore_files = TRUE
    /\ tree = { << 97 >> }
    /\ git = CleanRepository
    /\ has_git_extraheader = FALSE
    /\ extraheader = ""

\* collect_files has not been called.
NotCollected ==
    /\ all_files = << >>
    /\ ignored_files = << >>
    /\ filtered_files = << >>
    /\ log = {}
    /\ git_calls = {}

\* A run as a library (cli False), with the default configuration.
InitDefaultExit ==
    /\ cli = FALSE
    /\ DISABLE_ERRORS = FALSE
    /\ fail_if_updated_sources = FALSE
    /\ exit_code = 0

Init ==
    /\ InitContainerWorkspace
    /\ InitDefaultExit
    /\ InitFullScan
    /\ NotCollected
    /\ outcomes = LinterOutcomes
    /\ \E d \in [Names -> Descriptors], o \in [Names -> Orders], f \in [Names -> BOOLEAN] :
          linters = LoadLinters([ n \in Names |-> NewLinter(n, d[n], o[n], f[n]) ])
    /\ PARALLEL \in BOOLEAN
    /\ pc = "collect_files"
    /\ active_linters = << >>
    /\ linters_do_fixes = FALSE
    /\ mode = "none"
    /\ serial_idx = 0
    /\ tasks = << >>
    /\ status = "success"
    /\ return_code = 0
    /\ has_updated_sources = 0
    /\ pool = 0
    /\ runs = [ n \in Names |-> << >> ]
    /\ linters0 = << >>
    /\ reordered = FALSE

\* ----------------------------------------------------------- collect_files
\* File paths are lists of character codes, written relative to self.workspace
\* (the prefix that all of them share): "a", "b", "d/a", "n/a" and "zz", a file
\* that does not exist.
FileA == << 97 >>
FileB == << 98 >>
FileDA == << 100, 47, 97 >>
FileNA == << 110, 47, 97 >>
FileZZ == << 122, 122 >>
SepCode == 47

\* utils.get_excluded_directories(): the directory "n" stands for them.
ExcludedDirectories == { << 110 >> }

\* Python's order of two strings: by character code, a prefix first.
RECURSIVE PathLess(_, _)
PathLess(p, q) ==
    IF q = << >> THEN FALSE
    ELSE IF p = << >> THEN TRUE
    ELSE \/ Head(p) < Head(q)
         \/ Head(p) = Head(q) /\ PathLess(Tail(p), Tail(q))

\* sorted(S) of a set of strings.
RECURSIVE SortedList(_)
SortedList(S) ==
    IF S = {} THEN << >>
    ELSE LET m == CHOOSE x \in S : \A y \in S \ { x } : PathLess(x, y)
         IN << m >> \o SortedList(S \ { m })

\* Mutant of SortedSet: the list is kept as it was collected.
AsCollected(raw) == raw

\* sorted(set(all_files))
SortedSet(raw) == SortedList(Range(raw))

\* The directory of a path, << >> for a file of the workspace root.
DirName(p) ==
    IF \E i \in DOMAIN p : p[i] = SepCode
    THEN SubSeq(p, 1, (CHOOSE i \in DOMAIN p : p[i] = SepCode /\ \A j \in 1..(i - 1) : p[j] # SepCode) - 1)
    ELSE << >>

\* os.path.isfile(self.workspace + os.path.sep + file)
IsFile(p, t) == p \in t

\* list_files_all: the files of the root, then os.walk, which begins with the
\* root again and does not enter the excluded directories.
ListFilesAll(t) ==
    LET root == SortedList({ p \in t : DirName(p) = << >> })
        subdirs == SortedList({ DirName(p) : p \in t } \ ({ << >> } \cup ExcludedDirectories))
        walk == [ i \in DOMAIN subdirs |-> SortedList({ p \in t : DirName(p) = subdirs[i] }) ]
    IN root \o root \o Flatten(walk)

\* collect_files, the files sent as input parameter: those that exist.
ExplicitFiles(list, t) == SelectSeq(list, LAMBDA p : IsFile(p, t))

InputFileNotFound == "[File listing] Input file not found"
SwitchToValidateAll ==
    "Unable to list updated files from git diff. Switch to VALIDATE_ALL_CODE_BASE=true"
UnableToListIgnored == "Unable to list git ignored files"

\* list_files_git_diff: the exception it raises ("" for none), the files it
\* returns, whether it wrote the extraheader, and the git commands it called.
ListFilesGitDiff(g, t) ==
    IF g.repo = "invalid"
    THEN [ raised |-> "InvalidGitRepositoryError", files |-> << >>, wrote_header |-> FALSE,
           calls |-> { "Repo" } ]
    ELSE IF g.repo = "missing"
    THEN [ raised |-> "NoSuchPathError", files |-> << >>, wrote_header |-> FALSE,
           calls |-> { "Repo" } ]
    ELSE IF ~g.cached /\ ~g.fetch_ok
    THEN [ raised |-> "GitCommandError", files |-> << >>, wrote_header |-> g.bearer,
           calls |-> { "Repo", "fetch" } ]
    ELSE IF ~g.diff_ok
    THEN [ raised |-> "GitCommandError", files |-> << >>, wrote_header |-> g.bearer,
           calls |-> { "Repo", "diff" } \cup (IF g.cached THEN {} ELSE { "fetch" }) ]
    ELSE [ raised |-> "", files |-> ExplicitFiles(g.diff, t), wrote_header |-> g.bearer,
           calls |-> { "Repo", "diff" } \cup (IF g.cached THEN {} ELSE { "fetch" }) ]

\* Mutant of DiffFallback: the fallback lists nothing and keeps the flag.
DiffFallbackNothing(t) == [ files |-> << >>, validate_all |-> FALSE ]

\* collect_files, except git.InvalidGitRepositoryError: all the files are
\* listed and validate_all_code_base is set.
DiffFallback(t) == [ files |-> ListFilesAll(t), validate_all |-> TRUE ]

\* collect_files up to all_files = sorted(set(all_files)): raised is the
\* exception that leaves collect_files, "" for none.
Discover(list, validate_all, g, t) ==
    IF Len(list) > 0
    THEN [ raised |-> "", all_files |-> SortedSet(ExplicitFiles(list, t)),
           validate_all |-> validate_all, wrote_header |-> FALSE, calls |-> {},
           warnings |-> IF \E i \in DOMAIN list : ~IsFile(list[i], t)
                        THEN { InputFileNotFound } ELSE {} ]
    ELSE IF ~validate_all
    THEN LET d == ListFilesGitDiff(g, t)
         IN IF d.raised = "InvalidGitRepositoryError"
            THEN [ raised |-> "", all_files |-> SortedSet(DiffFallback(t).files),
                   validate_all |-> DiffFallback(t).validate_all,
                   wrote_header |-> d.wrote_header, calls |-> d.calls,
                   warnings |-> { SwitchToValidateAll } ]
            ELSE IF d.raised # ""
            THEN [ raised |-> d.raised, all_files |-> << >>, validate_all |-> validate_all,
                   wrote_header |-> d.wrote_header, calls |-> d.calls, warnings |-> {} ]
            ELSE [ raised |-> "", all_files |-> SortedSet(d.files),
                   validate_all |-> validate_all, wrote_header |-> d.wrote_header,
                   calls |-> d.calls, warnings |-> {} ]
    ELSE [ raised |-> "", all_files |-> SortedSet(ListFilesAll(t)),
           validate_all |-> validate_all, wrote_header |-> FALSE, calls |-> {},
           warnings |-> {} ]

\* list_git_ignored_files: the exception it raises, the list it returns.
ListGitIgnoredFiles(g) ==
    IF g.repo = "invalid"
    THEN [ raised |-> "InvalidGitRepositoryError", files |-> << >>, calls |-> { "Repo" } ]
    ELSE IF g.repo = "missing"
    THEN [ raised |-> "NoSuchPathError", files |-> << >>, calls |-> { "Repo" } ]
    ELSE IF ~g.ls_ok
    THEN [ raised |-> "GitCommandError", files |-> << >>, calls |-> { "Repo", "ls-files" } ]
    ELSE [ raised |-> "", files |-> SortedList(g.ignored), calls |-> { "Repo", "ls-files" } ]

\* Mutant of IgnoredFiles: only git.InvalidGitRepositoryError is caught.
IgnoredFilesInvalidOnly(enabled, g) ==
    IF ~enabled THEN [ raised |-> "", files |-> << >>, calls |-> {}, warnings |-> {} ]
    ELSE LET i == ListGitIgnoredFiles(g)
         IN IF i.raised = "" THEN [ raised |-> "", files |-> i.files, calls |-> i.calls,
                                    warnings |-> {} ]
            ELSE IF i.raised = "InvalidGitRepositoryError"
            THEN [ raised |-> "", files |-> << >>, calls |-> i.calls,
                   warnings |-> { UnableToListIgnored } ]
            ELSE [ raised |-> i.raised, files |-> << >>, calls |-> i.calls, warnings |-> {} ]

\* collect_files, "List git ignored files if necessary": both except clauses
\* leave the empty list and a warning.
IgnoredFiles(enabled, g) ==
    IF ~enabled THEN [ raised |-> "", files |-> << >>, calls |-> {}, warnings |-> {} ]
    ELSE LET i == ListGitIgnoredFiles(g)
         IN IF i.raised = "" THEN [ raised |-> "", files |-> i.files, calls |-> i.calls,
                                    warnings |-> {} ]
            ELSE [ raised |-> "", files |-> << >>, calls |-> i.calls,
                   warnings |-> { UnableToListIgnored } ]

\* utils.filter_files: the files that are not ignored, in the same order.
FilterFiles(files, ignored) == SelectSeq(files, LAMBDA p : p \notin Range(ignored))

\* Linter.collect_files(filtered_files): the files that match the linter's
\* criteria; a linter matches all of them or none.
LinterCollectFiles(l, filtered, matches) ==
    [ l EXCEPT !.files = IF matches THEN filtered ELSE << >> ]

\* Mutant of NoFileToLint: lint_all_files is read the other way round.
NoFileToLintButAll(l) == Len(l.files) = 0 /\ l.lint_all_files

\* collect_files, its last loop: len(linter.files) == 0 and
\* linter.lint_all_files is False
NoFileToLint(l) == Len(l.files) = 0 /\ ~l.lint_all_files

\* collect_files, its last loop, for one linter.
AssignFiles(l, filtered, matches) ==
    LET c == LinterCollectFiles(l, filtered, matches)
    IN IF NoFileToLint(c) THEN [ c EXCEPT !.is_active = FALSE ] ELSE c

\* An exception leaves collect_files and run(): the program ends with it.
CollectFiles ==
    /\ pc = "collect_files"
    /\ LET d == Discover(FILES_TO_LINT, validate_all_code_base, git, tree)
           i == IgnoredFiles(ignore_gitignore_files, git)
       IN /\ validate_all_code_base' = d.validate_all
          /\ has_git_extraheader' = (has_git_extraheader \/ d.wrote_header)
          /\ extraheader' = IF d.wrote_header THEN "Authorization: Bearer" ELSE extraheader
          /\ IF d.raised # ""
             THEN /\ pc' = "crashed"
                  /\ error' = d.raised
                  /\ git_calls' = d.calls
                  /\ log' = d.warnings
                  /\ UNCHANGED << all_files, ignored_files, filtered_files, linters >>
             ELSE /\ all_files' = d.all_files
                  /\ git_calls' = d.calls \cup i.calls
                  /\ IF i.raised # ""
                     THEN /\ pc' = "crashed"
                          /\ error' = i.raised
                          /\ log' = d.warnings
                          /\ UNCHANGED << ignored_files, filtered_files, linters >>
                     ELSE /\ pc' = "select_linters"
                          /\ ignored_files' = i.files
                          /\ filtered_files' = FilterFiles(d.all_files, i.files)
                          /\ log' = d.warnings \cup i.warnings
                          /\ \E matching \in SUBSET Names :
                                linters' = [ k \in DOMAIN linters |->
                                    AssignFiles(linters[k], filtered_files',
                                                linters[k].name \in matching) ]
                          /\ UNCHANGED error
    /\ UNCHANGED << PARALLEL, active_linters, linters_do_fixes, mode, serial_idx,
                    tasks, pool, status, return_code, has_updated_sources, runs,
                    linters0, reordered, exitVars, arg_input, default_workspace,
                    github_workspace, dirs, workspace, ws_rule, FILES_TO_LINT,
                    VALIDATE_ALL_CODEBASE, ignore_gitignore_files, tree, git, outcomes >>

\* ------------------------------------------------- run(): active linters
\* run(): the loop that fills active_linters, in registry order.
ActiveNames(reg) ==
    LET act == SelectSeq(reg, LAMBDA l : l.is_active)
    IN [ i \in DOMAIN act |-> act[i].name ]

\* run(): linters_do_fixes, set in the same loop.
LintersDoFixes(reg) == \E i \in DOMAIN reg : reg[i].is_active /\ reg[i].apply_fixes

\* run(): the list kept when check_active_linters_match_flavor answers False;
\* it keeps the linters that are still active.
StillActive(active, reg) == SelectSeq(active, LAMBDA n : Obj(reg, n).is_active)

\* linter.is_active = False for the linters named in off.
Deactivate(reg, off) ==
    [ i \in DOMAIN reg |->
        IF reg[i].name \in off THEN [ reg[i] EXCEPT !.is_active = FALSE ] ELSE reg[i] ]

\* flavor_factory.check_active_linters_match_flavor deactivates the active
\* linters that the image flavor lacks (`missing`) and answers False when there
\* are some.
SelectLinters ==
    /\ UNCHANGED << exitVars, wsVars, fileVars, outcomes >>
    /\ pc = "select_linters"
    /\ \E missing \in SUBSET Range(ActiveNames(linters)) :
          /\ linters' = Deactivate(linters, missing)
          /\ active_linters' =
                IF missing = {} THEN ActiveNames(linters)
                ELSE StillActive(ActiveNames(linters), linters')
    /\ linters_do_fixes' = LintersDoFixes(linters)
    /\ pc' = "dispatch"
    /\ UNCHANGED << PARALLEL, mode, serial_idx, tasks, pool, status, return_code,
                    has_updated_sources, runs, linters0, reordered >>

\* ------------------------------------------------------------- scheduling
\* Mutant of UseParallel: the pool is used from one active linter on.
UseParallelFromOne(parallel, active) == parallel /\ Len(active) > 0

\* run(): config.get("PARALLEL", "true") == "true" and len(active_linters) > 1
UseParallel(parallel, active) == parallel /\ Len(active) > 1

\* Mutant of GroupKey: the groups are keyed by the processing order.
GroupKeyByOrder(l) == l.processing_order

\* process_linters_parallel: the key of linters_by_descriptor.
GroupKey(l) == l.descriptor_id

\* Mutant of DictAdd: a linter is put in front of its group.
DictAddInFront(dict, key, l) ==
    IF \E j \in DOMAIN dict : dict[j].key = key
    THEN LET j == CHOOSE j \in DOMAIN dict : dict[j].key = key
         IN [ dict EXCEPT ![j].linters = << l >> \o @ ]
    ELSE Append(dict, [ key |-> key, linters |-> << l >> ])

\* linters_by_descriptor[key] += [linter]; a dict keeps its keys in the order
\* of their first insertion.
DictAdd(dict, key, l) ==
    IF \E j \in DOMAIN dict : dict[j].key = key
    THEN LET j == CHOOSE j \in DOMAIN dict : dict[j].key = key
         IN [ dict EXCEPT ![j].linters = Append(@, l) ]
    ELSE Append(dict, [ key |-> key, linters |-> << l >> ])

RECURSIVE LintersByDescriptor(_, _)
LintersByDescriptor(active, dict) ==
    IF active = << >> THEN dict
    ELSE LintersByDescriptor(Tail(active), DictAdd(dict, GroupKey(Head(active)), Head(active)))

\* Mutant of LinterGroups: the fix flag is ignored, every linter is alone.
LinterGroupsAlone(active, do_fixes) == [ i \in DOMAIN active |-> << active[i] >> ]

\* process_linters_parallel: linter_groups, a list of lists of linter objects.
LinterGroups(active, do_fixes) ==
    IF do_fixes
    THEN LET dict == LintersByDescriptor(active, << >>)
         IN [ g \in DOMAIN dict |-> dict[g].linters ]
    ELSE [ i \in DOMAIN active |-> << active[i] >> ]

\* pool.apply_async(run_linters, args=[linter_group]): the group is copied into
\* the task; the pool has not started it yet.
NewTask(group) == [ linters |-> group, idx |-> 0, at |-> "queued" ]

Dispatch ==
    /\ UNCHANGED << exitVars, wsVars, fileVars, outcomes >>
    /\ pc = "dispatch"
    /\ linters0' = linters
    /\ IF UseParallel(PARALLEL, active_linters)
       THEN /\ mode' = "parallel"
            /\ LET objs == [ i \in DOMAIN active_linters |-> Obj(linters, active_linters[i]) ]
                   groups == LinterGroups(objs, linters_do_fixes)
               IN tasks' = [ g \in DOMAIN groups |-> NewTask(groups[g]) ]
            /\ pool' = CpuCount
            /\ pc' = "parallel"
            /\ UNCHANGED serial_idx
       ELSE /\ mode' = "serial"
            /\ serial_idx' = 1
            /\ pc' = IF active_linters = << >> THEN "update_status" ELSE "serial"
            /\ UNCHANGED << tasks, pool >>
    /\ UNCHANGED << linters, PARALLEL, active_linters, linters_do_fixes, status,
                    return_code, has_updated_sources, runs, reordered >>

\* process_linters_serial: linter.run() on the registry's own object, then the
\* next linter of the list.
SerialRun ==
    /\ UNCHANGED << exitVars, wsVars, fileVars, outcomes >>
    /\ pc = "serial"
    /\ \E o \in outcomes :
          LET n == active_linters[serial_idx]
          IN /\ linters' = [ linters EXCEPT ![IndexOf(linters, n)] = Ran(@, o) ]
             /\ runs' = [ runs EXCEPT ![n] = Append(@, o) ]
    /\ serial_idx' = serial_idx + 1
    /\ pc' = IF serial_idx = Len(active_linters) THEN "update_status" ELSE "serial"
    /\ UNCHANGED << PARALLEL, active_linters, linters_do_fixes, mode, tasks, pool,
                    status, return_code, has_updated_sources, linters0, reordered >>

\* mp.Pool(mp.cpu_count()): a queued task starts when a pool process is free,
\* and run_linters begins with the first linter of the group.
Running(t) == t.at = "running"

\* Mutant of PoolHasFreeProcess: a pool process is not given back when its
\* task has returned.
PoolProcessNeverFreed(ts, processes) ==
    Cardinality({ h \in DOMAIN ts : ts[h].at # "queued" }) < processes

\* A pool process is free: fewer tasks are running than the pool has
\* processes.
PoolHasFreeProcess(ts, processes) ==
    Cardinality({ h \in DOMAIN ts : Running(ts[h]) }) < processes

TaskStart(g) ==
    /\ UNCHANGED << exitVars, wsVars, fileVars, outcomes >>
    /\ pc = "parallel"
    /\ tasks[g].at = "queued"
    /\ PoolHasFreeProcess(tasks, pool)
    /\ tasks' = [ tasks EXCEPT ![g].at = "running", ![g].idx = 1 ]
    /\ UNCHANGED << linters, PARALLEL, pc, active_linters, linters_do_fixes, mode,
                    serial_idx, pool, status, return_code, has_updated_sources, runs,
                    linters0, reordered >>

\* Mutant of NextInGroup: the loop is left at the first failed linter.
NextInGroupUnlessFailed(idx, o) ==
    IF o.return_code # 0 THEN MaxLinters + 1 ELSE idx + 1

\* run_linters: what follows a linter.run() that left outcome o: the next
\* linter of the group.
NextInGroup(idx, o) == idx + 1

\* run_linters in a pool process: linter.run() on the task's copy returns; the
\* loop goes on with the next linter, or the group is returned.
LinterRun(g) ==
    /\ UNCHANGED << exitVars, wsVars, fileVars, outcomes >>
    /\ pc = "parallel"
    /\ Running(tasks[g])
    /\ \E o \in outcomes :
          LET t == tasks[g]
              nxt == NextInGroup(t.idx, o)
          IN /\ tasks' = [ tasks EXCEPT
                            ![g].linters[t.idx] = Ran(@, o),
                            ![g].idx = nxt,
                            ![g].at = IF nxt > Len(t.linters) THEN "returned" ELSE "running" ]
             /\ runs' = [ runs EXCEPT ![t.linters[t.idx].name] = Append(@, o) ]
             /\ reordered' = ( reordered \/ ( nxt > Len(t.linters) /\
                                \E h \in 1..(g - 1) : tasks[h].at # "returned" ) )
    /\ UNCHANGED << linters, PARALLEL, pc, active_linters, linters_do_fixes, mode,
                    serial_idx, pool, status, return_code, has_updated_sources,
                    linters0 >>

\* Mutant of PoolJoined: the results are read without waiting for the pool.
PoolNotJoined(ts) == TRUE

\* pool.close(); pool.join(): returns when every task has returned.
PoolJoined(ts) == \A g \in DOMAIN ts : ts[g].at = "returned"

\* Mutant of ReplaceByName: the returned linter is moved to the end of the
\* registry, which then is in the order the groups were read.
MoveToEndByName(reg, updated) ==
    IF \E i \in DOMAIN reg : reg[i].name = updated.name
    THEN Append(SelectSeq(reg, LAMBDA l : l.name # updated.name), updated)
    ELSE reg

\* Mutant of ReplaceByName: the result fields are copied into the registry's
\* own object, which keeps the rest.
MergeByName(reg, updated) ==
    [ i \in DOMAIN reg |->
        IF reg[i].name = updated.name
        THEN [ reg[i] EXCEPT !.status = updated.status,
                             !.return_code = updated.return_code ]
        ELSE reg[i] ]

\* self.linters[i] = updated_linter for the first i with the same name.
ReplaceByName(reg, updated) ==
    IF \E i \in DOMAIN reg : reg[i].name = updated.name
    THEN LET i == CHOOSE i \in DOMAIN reg :
                     /\ reg[i].name = updated.name
                     /\ \A k \in 1..(i - 1) : reg[k].name # updated.name
         IN [ reg EXCEPT ![i] = updated ]
    ELSE reg

\* Mutant of UpdateLinters: only the first returned linter is written back.
UpdateLintersFirstOnly(reg, updated_linters) ==
    IF updated_linters = << >> THEN reg
    ELSE [ i \in DOMAIN reg |->
             IF reg[i].name = Head(updated_linters).name
             THEN Head(updated_linters) ELSE reg[i] ]

RECURSIVE UpdateLinters(_, _)
UpdateLinters(reg, updated_linters) ==
    IF updated_linters = << >> THEN reg
    ELSE UpdateLinters(ReplaceByName(reg, Head(updated_linters)), Tail(updated_linters))

\* process_linters_parallel: the loop over pool_results, in submission order.
Reconcile ==
    /\ UNCHANGED << exitVars, wsVars, fileVars, outcomes >>
    /\ pc = "parallel"
    /\ PoolJoined(tasks)
    /\ linters' = UpdateLinters(linters, Flatten([ g \in DOMAIN tasks |-> tasks[g].linters ]))
    /\ pc' = "update_status"
    /\ UNCHANGED << PARALLEL, active_linters, linters_do_fixes, mode, serial_idx,
                    tasks, pool, status, return_code, has_updated_sources, runs,
                    linters0, reordered >>

\* ------------------------------------------------------------ aggregation
\* Mutant of UpdateStatus: a non blocking error sets "warning" whatever the
\* status was.
UpdateStatusWarningOverrides(v, l) ==
    [ status |->
        IF l.status # "success"
        THEN IF l.return_code = 0 THEN "warning" ELSE "error"
        ELSE v.status,
      return_code |-> IF l.return_code > 0 THEN l.return_code ELSE v.return_code,
      has_updated_sources |-> IF l.number_fixed > 0 THEN 1 ELSE v.has_updated_sources ]

\* Mutant of UpdateStatus: the highest return code is kept.
UpdateStatusMaxCode(v, l) ==
    [ status |->
        IF l.status # "success"
        THEN IF l.return_code = 0
             THEN IF v.status = "success" THEN "warning" ELSE v.status
             ELSE "error"
        ELSE v.status,
      return_code |-> IF l.return_code > v.return_code THEN l.return_code ELSE v.return_code,
      has_updated_sources |-> IF l.number_fixed > 0 THEN 1 ELSE v.has_updated_sources ]

\* run(): the body of the loop that updates the main status, for one linter.
UpdateStatus(v, l) ==
    [ status |->
        IF l.status # "success"
        THEN IF l.return_code = 0
             THEN IF v.status = "success" THEN "warning" ELSE v.status
             ELSE "error"
        ELSE v.status,
      return_code |-> IF l.return_code > 0 THEN l.return_code ELSE v.return_code,
      has_updated_sources |-> IF l.number_fixed > 0 THEN 1 ELSE v.has_updated_sources ]

RECURSIVE FoldStatus(_, _)
FoldStatus(v, reg) ==
    IF reg = << >> THEN v ELSE FoldStatus(UpdateStatus(v, Head(reg)), Tail(reg))

Aggregate ==
    /\ UNCHANGED << exitVars, wsVars, fileVars, outcomes >>
    /\ pc = "update_status"
    /\ LET v == FoldStatus([ status |-> status, return_code |-> return_code,
                             has_updated_sources |-> has_updated_sources ], linters)
       IN /\ status' = v.status
          /\ return_code' = v.return_code
          /\ has_updated_sources' = v.has_updated_sources
    /\ pc' = "sort_linters"
    /\ UNCHANGED << linters, PARALLEL, active_linters, linters_do_fixes, mode,
                    serial_idx, tasks, pool, runs, linters0, reordered >>

\* Mutant of SortLinters: the status loop is run again on the sorted registry.
SortLintersAndRecompute ==
    /\ UNCHANGED << exitVars, wsVars, fileVars, outcomes >>
    /\ pc = "sort_linters"
    /\ linters' = SortedBy(linters, [ i \in DOMAIN linters |-> ReportKey(linters[i]) ])
    /\ LET v == FoldStatus([ status |-> "success", return_code |-> 0,
                             has_updated_sources |-> 0 ], linters')
       IN /\ status' = v.status
          /\ return_code' = v.return_code
          /\ has_updated_sources' = v.has_updated_sources
    /\ pc' = "reports"
    /\ UNCHANGED << PARALLEL, active_linters, linters_do_fixes, mode, serial_idx,
                    tasks, pool, runs, linters0, reordered >>

\* run(): self.linters = sorted(self.linters, key=...) before the reports.
SortLinters ==
    /\ UNCHANGED << exitVars, wsVars, fileVars, outcomes >>
    /\ pc = "sort_linters"
    /\ linters' = SortedBy(linters, [ i \in DOMAIN linters |-> ReportKey(linters[i]) ])
    /\ pc' = "reports"
    /\ UNCHANGED << PARALLEL, active_linters, linters_do_fixes, mode, serial_idx,
                    tasks, pool, status, return_code, has_updated_sources, runs,
                    linters0, reordered >>

\* ------------------------------------------------- reports and exit code
\* run(): flavor suggestions, post commands, the reporters and before_exit();
\* none of them writes the status, the return code or the registry.
\* manage_clean_git_repo: the value of http.extraheader that it leaves.
ManageCleanGitRepo(has_header, header) == IF has_header THEN "" ELSE header

ProduceReports ==
    /\ pc = "reports"
    /\ extraheader' = ManageCleanGitRepo(has_git_extraheader, extraheader)
    /\ pc' = "check_results"
    /\ UNCHANGED << linters, PARALLEL, active_linters, linters_do_fixes, mode,
                    serial_idx, tasks, pool, status, return_code,
                    has_updated_sources, runs, linters0, reordered, exitVars, wsVars,
                    FILES_TO_LINT, VALIDATE_ALL_CODEBASE, validate_all_code_base,
                    ignore_gitignore_files, tree, git, all_files, ignored_files, filtered_files,
                    has_git_extraheader, log, git_calls, outcomes >>

\* Mutant of CheckUpdatedSourcesFailure: the policy alone stops the run.
CheckUpdatedSourcesFailureAlways(updated, fail_if_updated) == fail_if_updated

\* check_updated_sources_failure: TRUE when it calls sys.exit(1).
CheckUpdatedSourcesFailure(updated, fail_if_updated) == updated > 0 /\ fail_if_updated

\* What stops the process: sys.exit(code), or nothing when check_results
\* returns to the caller of run().
SysExit(code) == [ exits |-> TRUE, code |-> code ]
NoExit == [ exits |-> FALSE, code |-> 0 ]

\* Mutant of ErrorExit: DISABLE_ERRORS is not read.
ErrorExitAlways(is_cli, disable_errors, rc) ==
    IF is_cli THEN SysExit(rc) ELSE NoExit

\* check_results, the branch of the status "error".
ErrorExit(is_cli, disable_errors, rc) ==
    IF is_cli
    THEN IF disable_errors THEN SysExit(0) ELSE SysExit(rc)
    ELSE NoExit

\* Mutant of CheckResultsExit: the updated sources are checked first, for
\* every status.
CheckResultsExitUpdatedFirst(st, rc, updated, is_cli, disable_errors, fail_if_updated) ==
    IF CheckUpdatedSourcesFailure(updated, fail_if_updated) THEN SysExit(1)
    ELSE IF st \in { "success", "warning" } THEN NoExit
    ELSE ErrorExit(is_cli, disable_errors, rc)

\* check_results
CheckResultsExit(st, rc, updated, is_cli, disable_errors, fail_if_updated) ==
    IF st = "success" \/ st = "warning"
    THEN IF CheckUpdatedSourcesFailure(updated, fail_if_updated)
         THEN SysExit(1) ELSE NoExit
    ELSE ErrorExit(is_cli, disable_errors, rc)

CheckResults ==
    /\ pc = "check_results"
    /\ LET e == CheckResultsExit(status, return_code, has_updated_sources,
                                 cli, DISABLE_ERRORS, fail_if_updated_sources)
       IN /\ pc' = IF e.exits THEN "exited" ELSE "returned"
          /\ exit_code' = e.code
    /\ UNCHANGED << linters, PARALLEL, active_linters, linters_do_fixes, mode,
                    serial_idx, tasks, pool, status, return_code,
                    has_updated_sources, runs, linters0, reordered,
                    cli, DISABLE_ERRORS, fail_if_updated_sources, wsVars,
                    fileVars, outcomes >>

Next ==
    \/ CollectFiles
    \/ SelectLinters
    \/ Dispatch
    \/ SerialRun
    \/ \E g \in DOMAIN tasks : TaskStart(g)
    \/ \E g \in DOMAIN tasks : LinterRun(g)
    \/ Reconcile
    \/ Aggregate
    \/ SortLinters
    \/ ProduceReports
    \/ CheckResults

Spec == Init /\ [][Next]_vars

\* ------------------------------------------- the verdict of a finished run
\* What a linter can leave in its result state: Linter.run sets status and
\* return_code from the exit status of the linter's command (negative when a
\* signal killed it) and number_fixed from the files it rewrote.
ReturnCodes == { -1, 0, 1, 2 }
VerdictOutcomes ==
    [ status : { "success", "error" }, return_code : ReturnCodes, number_fixed : { 0, 1 } ]

\* The state of run() when process_linters_serial has returned: every linter
\* of the registry was active and ran once, with the result res[name].
AfterSerialRun(d, o, res) ==
    LET reg == LoadLinters([ n \in Names |->
                   [ NewLinter(n, d[n], o[n], FALSE) EXCEPT !.files = << << 97 >> >> ] ])
    IN /\ InitFullScan
       /\ all_files = << << 97 >> >>
       /\ ignored_files = << >>
       /\ filtered_files = << << 97 >> >>
       /\ log = {}
       /\ git_calls = { "Repo", "ls-files" }
       /\ outcomes = VerdictOutcomes
       /\ linters0 = reg
       /\ linters = [ i \in DOMAIN reg |-> Ran(reg[i], res[reg[i].name]) ]
       /\ active_linters = ActiveNames(reg)
       /\ runs = [ n \in Names |-> << res[n] >> ]
       /\ PARALLEL = FALSE
       /\ linters_do_fixes = FALSE
       /\ mode = "serial"
       /\ serial_idx = Len(reg) + 1
       /\ tasks = << >>
       /\ pool = 0
       /\ reordered = FALSE
       /\ status = "success"
       /\ return_code = 0
       /\ has_updated_sources = 0
       /\ pc = "update_status"

NextVerdict ==
    \/ Aggregate
    \/ SortLinters
    \/ ProduceReports
    \/ CheckResults

\* Linters of one descriptor in every processing order, so that the registry
\* is in most orders of the names, and every result of the linters; run()
\* called as a library.
InitFold ==
    /\ InitContainerWorkspace
    /\ InitDefaultExit
    /\ \E o \in [Names -> Orders], res \in [Names -> VerdictOutcomes] :
          AfterSerialRun([ n \in Names |-> 1 ], o, res)

SpecFold == InitFold /\ [][NextVerdict]_vars

\* One registry, every result of its linters, and every configuration that
\* check_results reads.
InitExit ==
    /\ InitContainerWorkspace
    /\ cli \in BOOLEAN
    /\ DISABLE_ERRORS \in BOOLEAN
    /\ fail_if_updated_sources \in BOOLEAN
    /\ exit_code = 0
    /\ \E res \in [Names -> VerdictOutcomes] :
          AfterSerialRun([ n \in Names |-> 1 ], [ n \in Names |-> 0 ], res)

SpecExit == InitExit /\ [][NextVerdict]_vars

\* ------------------------------------------------------- the file listing
\* The files under the workspace: none, one, or files in the root, in a
\* directory and in an excluded directory.
Trees == { {}, { FileB }, { FileA, FileB, FileDA, FileNA } }

\* The repositories: a git repository, a directory that is none
\* ("invalid"), or a path that does not exist ("missing"); with or without
\* GIT_AUTHORIZATION_BEARER; the default branch cached, fetched, or failing to
\* be fetched; git diff and git ls-files answering or failing.
Repositories ==
    { g \in [ repo : { "ok", "invalid", "missing" }, bearer : BOOLEAN, cached : BOOLEAN,
              fetch_ok : BOOLEAN, diff_ok : BOOLEAN, diff : { << FileB, FileDA, FileZZ >> },
              ls_ok : BOOLEAN, ignored : { { FileB } } ] :
        g.cached => g.fetch_ok }

\* A repository for the runs that do not list the files with git diff.
NoDiff(g) == g.cached /\ g.diff_ok /\ ~g.bearer

\* Linter.lint_all_files of the loaded linters: False for all of them, or True
\* for the first one.
LintAllFiles == { [ n \in Names |-> FALSE ], [ n \in Names |-> n = 1 ] }

\* The registry of a run on files: linters of one descriptor, linter n with
\* lint_all_files la[n].
FileLinters(la) ==
    LoadLinters([ n \in Names |-> [ NewLinter(n, 1, 0, FALSE) EXCEPT !.lint_all_files = la[n] ] ])

\* run() is called: the state after __init__.
BeforeRun ==
    /\ InitContainerWorkspace
    /\ InitDefaultExit
    /\ NotCollected
    /\ has_git_extraheader = FALSE
    /\ extraheader = ""
    /\ PARALLEL = TRUE
    /\ pc = "collect_files"
    /\ active_linters = << >>
    /\ linters_do_fixes = FALSE
    /\ mode = "none"
    /\ serial_idx = 0
    /\ tasks = << >>
    /\ status = "success"
    /\ return_code = 0
    /\ has_updated_sources = 0
    /\ pool = 0
    /\ runs = [ n \in Names |-> << >> ]
    /\ linters0 = << >>
    /\ reordered = FALSE

\* The three ways of listing the files (MEGALINTER_FILES_TO_LINT, git diff
\* with VALIDATE_ALL_CODE_BASE false, all the files), in every repository and
\* tree, with and without the git ignored files; every linter's run succeeds.
InitFiles ==
    /\ BeforeRun
    /\ \E la \in LintAllFiles : linters = FileLinters(la)
    /\ outcomes = { [status |-> "success", return_code |-> 0, number_fixed |-> 0] }
    /\ tree \in Trees
    /\ ignore_gitignore_files \in BOOLEAN
    /\ git \in Repositories
    /\ \/ /\ FILES_TO_LINT = << FileB, FileZZ, FileA, FileB >>
          /\ VALIDATE_ALL_CODEBASE \in BOOLEAN
          /\ NoDiff(git)
       \/ /\ FILES_TO_LINT = << >>
          /\ VALIDATE_ALL_CODEBASE = FALSE
       \/ /\ FILES_TO_LINT = << >>
          /\ VALIDATE_ALL_CODEBASE = TRUE
          /\ NoDiff(git)
    /\ validate_all_code_base = VALIDATE_ALL_CODEBASE

SpecFiles == InitFiles /\ [][Next]_vars

\* ------------------------------------------------- the run with fairness
\* Two outcomes of a run() call: the linter succeeds or fails.
LiveOutcomes ==
    { [status |-> "success", return_code |-> 0, number_fixed |-> 0],
      [status |-> "error", return_code |-> 1, number_fixed |-> 0] }

\* The linters of one descriptor, or of alternating descriptors.
LiveDescriptors == { [ n \in Names |-> 1 ], [ n \in Names |-> 1 + (n % MaxDescriptor) ] }

\* All the linters apply fixes (groups by descriptor) or none does (one group
\* per linter, more groups than the pool has processes); PARALLEL true or
\* false.
InitLive ==
    /\ InitContainerWorkspace
    /\ InitDefaultExit
    /\ InitFullScan
    /\ NotCollected
    /\ outcomes = LiveOutcomes
    /\ PARALLEL \in BOOLEAN
    /\ pc = "collect_files"
    /\ active_linters = << >>
    /\ linters_do_fixes = FALSE
    /\ mode = "none"
    /\ serial_idx = 0
    /\ tasks = << >>
    /\ status = "success"
    /\ return_code = 0
    /\ has_updated_sources = 0
    /\ pool = 0
    /\ runs = [ n \in Names |-> << >> ]
    /\ linters0 = << >>
    /\ reordered = FALSE
    /\ \E d \in LiveDescriptors, f \in BOOLEAN :
          linters = LoadLinters([ n \in Names |-> NewLinter(n, d[n], 0, f) ])

\* The statements of run() and of process_linters_parallel in the main
\* process.
MainProcess ==
    \/ CollectFiles
    \/ SelectLinters
    \/ Dispatch
    \/ Reconcile
    \/ Aggregate
    \/ SortLinters
    \/ ProduceReports
    \/ CheckResults

\* run() is sequential code and goes on to its next statement; every call of
\* Linter.run() returns (the hypothesis of the termination claim); the pool
\* starts a queued task when one of its processes is free, and pool.join()
\* returns once every task has returned.
Fairness ==
    /\ WF_vars(MainProcess)
    /\ WF_vars(SerialRun)
    /\ \A g \in Names : WF_vars(g \in DOMAIN tasks /\ TaskStart(g))
    /\ \A g \in Names : WF_vars(g \in DOMAIN tasks /\ LinterRun(g))

SpecLive == InitLive /\ [][Next]_vars /\ Fairness

\* ------------------------------------------------- the two scheduling modes
\* The outcomes of a run() call that make the order of the status loop
\* visible: two blocking return codes, a non blocking error, a fix.
ModeOutcomes ==
    { [status |-> "success", return_code |-> 0, number_fixed |-> 1],
      [status |-> "error", return_code |-> 0, number_fixed |-> 0],
      [status |-> "error", return_code |-> 1, number_fixed |-> 0],
      [status |-> "error", return_code |-> 2, number_fixed |-> 0] }

\* Every descriptor and processing order; all the linters apply fixes or none
\* does; PARALLEL true or false.
InitModes ==
    /\ InitContainerWorkspace
    /\ InitDefaultExit
    /\ InitFullScan
    /\ NotCollected
    /\ outcomes = ModeOutcomes
    /\ \E d \in [Names -> Descriptors], o \in [Names -> Orders], f \in BOOLEAN :
          linters = LoadLinters([ n \in Names |-> NewLinter(n, d[n], o[n], f) ])
    /\ PARALLEL \in BOOLEAN
    /\ pc = "collect_files"
    /\ active_linters = << >>
    /\ linters_do_fixes = FALSE
    /\ mode = "none"
    /\ serial_idx = 0
    /\ tasks = << >>
    /\ status = "success"
    /\ return_code = 0
    /\ has_updated_sources = 0
    /\ pool = 0
    /\ runs = [ n \in Names |-> << >> ]
    /\ linters0 = << >>
    /\ reordered = FALSE

SpecModes == InitModes /\ [][Next]_vars

\* ------------------------------------------------ the choice of workspace
\* The values of --input (None, relative, absolute), of DEFAULT_WORKSPACE and
\* of GITHUB_WORKSPACE.
ArgInputs == { {}, { "w" }, { "/w" } }
DefaultWorkspaces == { "", "w", "/w" }
GithubWorkspaces == { "", "/", "/g" }

\* The directories that get_workspace can test or return with these values.
CandidateDirs ==
    { "/tmp/lint", "/tmp/lint/w", "/w", "/cwd/w", "/g", "/g/tmp/lint", "/g/w",
      "/cwd/w/tmp/lint/w", "/w/tmp/lint/w" }

\* __init__ after load_cli_vars(), before get_workspace(): nothing else is set.
InitWorkspace ==
    /\ arg_input \in ArgInputs
    /\ default_workspace \in DefaultWorkspaces
    /\ github_workspace \in GithubWorkspaces
    /\ dirs \in SUBSET CandidateDirs
    /\ workspace = ""
    /\ ws_rule = 0
    /\ error = ""
    /\ InitDefaultExit
    /\ InitFullScan
    /\ NotCollected
    /\ outcomes = LinterOutcomes
    /\ pc = "get_workspace"
    /\ linters = << >>
    /\ PARALLEL = FALSE
    /\ active_linters = << >>
    /\ linters_do_fixes = FALSE
    /\ mode = "none"
    /\ serial_idx = 0
    /\ tasks = << >>
    /\ status = "success"
    /\ return_code = 0
    /\ has_updated_sources = 0
    /\ pool = 0
    /\ runs = [ n \in Names |-> << >> ]
    /\ linters0 = << >>
    /\ reordered = FALSE

\* __init__: self.workspace = self.get_workspace(); an exception ends the
\* construction, and with it the program.
GetWorkspace ==
    /\ pc = "get_workspace"
    /\ LET r == GetWorkspaceResult(arg_input, default_workspace, github_workspace, dirs)
       IN /\ pc' = IF r.returns THEN "init_config" ELSE "fatal"
          /\ workspace' = r.path
          /\ ws_rule' = r.rule
          /\ error' = r.message
    /\ UNCHANGED << linters, PARALLEL, active_linters, linters_do_fixes, mode,
                    serial_idx, tasks, pool, status, return_code,
                    has_updated_sources, runs, linters0, reordered, exitVars,
                    arg_input, default_workspace, github_workspace, dirs,
                    fileVars, outcomes >>

NextWorkspace == GetWorkspace

SpecWorkspace == InitWorkspace /\ [][NextWorkspace]_vars

\* ----------------------------------------------------------------- claims
InParallel == mode = "parallel"
InSerial == mode = "serial"
Scheduled ==
    pc \in { "update_status", "sort_linters", "reports", "check_results",
             "exited", "returned" }
ActiveSet == Range(active_linters)

\* Some linter of the active list applies fixes.
ActiveFixer == \E n \in ActiveSet : Obj(linters0, n).apply_fixes

\* The linter a running task is executing.
Current(t) == t.linters[t.idx]
IsRunning(n) ==
    \/ \E g \in DOMAIN tasks : Running(tasks[g]) /\ Current(tasks[g]).name = n
    \/ pc = "serial" /\ active_linters[serial_idx] = n
Finished(n) == runs[n] # << >>
Started(n) == Finished(n) \/ IsRunning(n)

\* Position of a name in the active list.
ActivePos(n) == CHOOSE i \in DOMAIN active_linters : active_linters[i] = n
GroupNames(g) == { tasks[g].linters[i].name : i \in DOMAIN tasks[g].linters }
GroupOf(n) == CHOOSE g \in DOMAIN tasks : n \in GroupNames(g)

\* C1: in concurrent mode with an active linter that applies fixes, two
\* linters of the same descriptor_id are never executing at the same time:
\* the active linters of one descriptor_id are in one group, and the linters
\* executing at one moment belong to different groups.
C1_NoSameDescriptorConcurrently ==
    (InParallel /\ ActiveFixer) =>
        /\ \A a, b \in ActiveSet :
              Obj(linters0, a).descriptor_id = Obj(linters0, b).descriptor_id
                  => GroupOf(a) = GroupOf(b)
        /\ \A a, b \in ActiveSet :
              (a # b /\ IsRunning(a) /\ IsRunning(b)) =>
                  /\ GroupOf(a) # GroupOf(b)
                  /\ Obj(linters0, a).descriptor_id # Obj(linters0, b).descriptor_id

\* Two groups execute at the same time, one of them a group of two linters
\* of one descriptor, with an active fixer.
C1_Witness ==
    /\ InParallel /\ ActiveFixer
    /\ \E g, h \in DOMAIN tasks :
          /\ g # h /\ Running(tasks[g]) /\ Running(tasks[h])
          /\ Len(tasks[g].linters) = 2

\* C2: in concurrent mode with an active fixer the groups are the partition of
\* the active linters by descriptor_id: each active linter is in exactly one
\* group, a group has one descriptor_id, two groups have different ones, and
\* there are as many groups as descriptor_ids among the active linters.
C2_GroupsPartitionByDescriptor ==
    (InParallel /\ ActiveFixer) =>
        /\ \A n \in ActiveSet :
              Cardinality({ gi \in { << g, i >> : g \in DOMAIN tasks, i \in 1..MaxLinters } :
                              /\ gi[2] \in DOMAIN tasks[gi[1]].linters
                              /\ tasks[gi[1]].linters[gi[2]].name = n }) = 1
        /\ \A g \in DOMAIN tasks : GroupNames(g) \subseteq ActiveSet /\ GroupNames(g) # {}
        /\ \A g \in DOMAIN tasks : \A i, j \in DOMAIN tasks[g].linters :
              tasks[g].linters[i].descriptor_id = tasks[g].linters[j].descriptor_id
        /\ \A g, h \in DOMAIN tasks :
              g # h => tasks[g].linters[1].descriptor_id # tasks[h].linters[1].descriptor_id
        /\ Len(tasks) = Cardinality({ Obj(linters0, n).descriptor_id : n \in ActiveSet })

\* The example of the specification: A (class 1, fixes), B (class 1, no fix),
\* C (class 2, fixes) give the two groups {A, B} and {C}.
C2_Witness ==
    /\ InParallel
    /\ active_linters = << 1, 2, 3 >>
    /\ Obj(linters0, 1).descriptor_id = 1 /\ Obj(linters0, 1).apply_fixes
    /\ Obj(linters0, 2).descriptor_id = 1 /\ ~Obj(linters0, 2).apply_fixes
    /\ Obj(linters0, 3).descriptor_id = 2 /\ Obj(linters0, 3).apply_fixes
    /\ Len(tasks) = 2
    /\ GroupNames(1) = { 1, 2 } /\ GroupNames(2) = { 3 }

\* C3: in concurrent mode, if no linter that is active at dispatch time
\* applies fixes, every active linter is a group of its own.
C3_SingletonGroupsWithoutActiveFixer ==
    (InParallel /\ ~ActiveFixer) =>
        /\ Len(tasks) = Len(active_linters)
        /\ \A g \in DOMAIN tasks : Len(tasks[g].linters) = 1

\* C4: concurrent mode is used exactly when PARALLEL is set and more than one
\* linter of the registry is active; otherwise serial mode, without a pool.
NumActive(reg) == Cardinality({ i \in DOMAIN reg : reg[i].is_active })

C4_ModeSelection ==
    mode # "none" =>
        /\ InParallel <=> (PARALLEL /\ NumActive(linters0) > 1)
        /\ InSerial <=> ~(PARALLEL /\ NumActive(linters0) > 1)
        /\ InSerial => (pool = 0 /\ tasks = << >>)
        /\ InParallel => pool > 0

\* PARALLEL is set and serial mode ran the only active linter.
C4_Witness ==
    /\ InSerial /\ PARALLEL /\ NumActive(linters0) = 1 /\ Scheduled
    /\ \E n \in Names : Finished(n)

\* C5: two linters of one group execute in the order of the active list: the
\* later one starts only when the earlier one has returned.
C5_GroupOrder ==
    InParallel =>
        \A g \in DOMAIN tasks : \A a, b \in GroupNames(g) :
            (ActivePos(a) < ActivePos(b) /\ Started(b)) => Finished(a)

\* The second linter of a group executes, and a group submitted later has
\* returned before it.
C5_Witness ==
    /\ InParallel
    /\ \E g, h \in DOMAIN tasks :
          /\ g < h /\ Running(tasks[g]) /\ tasks[g].idx = 2
          /\ tasks[h].at = "returned"

\* C6: in serial mode, of two active linters the one with the smaller
\* (descriptor_id, name) key has returned before the other one starts.
C6_SerialOrderByDescriptorAndName ==
    InSerial =>
        \A a, b \in ActiveSet :
            ( LexLess(ReportKey(Obj(linters0, a)), ReportKey(Obj(linters0, b)))
              /\ Started(b) ) => Finished(a)

\* C7: in concurrent mode, as long as a submitted group has not returned, the
\* registry is the one the scheduler was called with, the run status, the
\* return code and the updated-sources flag are untouched, and run() is still
\* inside process_linters_parallel.
AllReturned == \A g \in DOMAIN tasks : tasks[g].at = "returned"

C7_NothingReadBeforePoolDrained ==
    (InParallel /\ ~AllReturned) =>
        /\ pc = "parallel"
        /\ linters = linters0
        /\ status = "success" /\ return_code = 0 /\ has_updated_sources = 0

\* A group has returned a failed linter that fixed nothing yet another group
\* is still executing: its result waits in the pool.
C7_Witness ==
    /\ InParallel /\ ~AllReturned
    /\ \E g, h \in DOMAIN tasks :
          /\ tasks[g].at = "returned" /\ tasks[g].linters[1].return_code # 0
          /\ Running(tasks[h])

\* The result fields of a linter object.
Result(l) == [ status |-> l.status, return_code |-> l.return_code,
               number_fixed |-> l.number_fixed ]
RegistryNames(reg) == { reg[i].name : i \in DOMAIN reg }

\* C8: after the scheduler (serial or concurrent) the registry has the size and
\* the names it had before, each name once; every linter that was handed to
\* the scheduler carries the result state of its one run, and every other
\* linter is the object it was.
C8_RegistryResolvedAndUnchangedInSize ==
    Scheduled =>
        /\ Len(linters) = Len(linters0)
        /\ RegistryNames(linters) = RegistryNames(linters0)
        /\ \A i, j \in DOMAIN linters : linters[i].name = linters[j].name => i = j
        /\ \A i \in DOMAIN linters :
              IF linters[i].name \in ActiveSet
              THEN /\ linters[i].ran = 1
                   /\ linters[i].status \in { o.status : o \in LinterOutcomes }
              ELSE linters[i] = Obj(linters0, linters[i].name)

\* Concurrent mode has written two groups back while a third linter of the
\* registry was inactive.
C8_Witness ==
    /\ Scheduled /\ InParallel
    /\ Len(tasks) = 2
    /\ \E i \in DOMAIN linters : ~linters[i].is_active /\ linters[i].ran = 0
    /\ \E i \in DOMAIN linters : linters[i].ran = 1 /\ linters[i].return_code # 0

\* The linter objects the pool returned.
Returned == Range(Flatten([ g \in DOMAIN tasks |-> tasks[g].linters ]))

\* C9: right after the write-back, the registry entry of each name the pool
\* returned is the returned object, whole, the other entries are the objects
\* they were, at the places they had; completion order plays no part.
C9_ReplacedWholesaleByName ==
    (InParallel /\ pc = "update_status") =>
        /\ Len(linters) = Len(linters0)
        /\ \A i \in DOMAIN linters0 :
              IF \E u \in Returned : u.name = linters0[i].name
              THEN linters[i] \in Returned /\ linters[i].name = linters0[i].name
              ELSE linters[i] = linters0[i]

\* The groups returned in another order than they were submitted, one linter
\* fixed files, and a linter of the registry was not submitted.
C9_Witness ==
    /\ InParallel /\ pc = "update_status" /\ reordered
    /\ \E u \in Returned : u.number_fixed > 0
    /\ \E i \in DOMAIN linters0 : ~\E u \in Returned : u.name = linters0[i].name

\* C10: when the scheduler is through, run() was called exactly once on every
\* active linter and never on another one, whatever the return codes, and each
\* linter's result state is the outcome of its own run.
C10_FailureDoesNotStopOthers ==
    /\ \A n \in Names : Len(runs[n]) <= 1
    /\ Scheduled =>
          \A n \in Names :
              IF n \in ActiveSet
              THEN /\ Len(runs[n]) = 1
                   /\ Result(Obj(linters, n)) = runs[n][1]
              ELSE /\ runs[n] = << >>
                   /\ Result(Obj(linters, n)) = Result(Obj(linters0, n))

\* The first linter of a group of two failed, the second one ran and
\* succeeded, and so did the linter of another group.
C10_Witness ==
    /\ Scheduled /\ InParallel
    /\ \E g, h \in DOMAIN tasks :
          /\ g # h
          /\ Len(tasks[g].linters) = 2
          /\ tasks[g].linters[1].return_code # 0
          /\ tasks[g].linters[2].ran = 1 /\ tasks[g].linters[2].return_code = 0
          /\ tasks[h].linters[1].ran = 1 /\ tasks[h].linters[1].return_code = 0

\* ------------------------------------------------ claims about the verdict
Aggregated == pc \in { "sort_linters", "reports", "check_results", "exited", "returned" }

\* The verdict that __init__ sets, the one the fold starts from.
InitialVerdict == [ status |-> "success", return_code |-> 0, has_updated_sources |-> 0 ]

Rank(st) == CASE st = "success" -> 0 [] st = "warning" -> 1 [] st = "error" -> 2

\* The status folded over the first k linters of the registry.
StatusAfter(k) == FoldStatus(InitialVerdict, SubSeq(linters, 1, k)).status

Orderings(n) == { p \in [1..n -> 1..n] : \A i, j \in 1..n : p[i] = p[j] => i = j }

NotSuccess(l) == l.status # "success"

DominantStatus(reg) ==
    IF \E i \in DOMAIN reg : NotSuccess(reg[i]) /\ reg[i].return_code # 0 THEN "error"
    ELSE IF \E i \in DOMAIN reg : NotSuccess(reg[i]) /\ reg[i].return_code = 0 THEN "warning"
    ELSE "success"

\* C11: the status of the run is "error" when a linter has a status other than
\* success and a non-zero return code, else "warning" when a linter has a
\* status other than success and the return code zero, else "success"; folding
\* one more linter never lowers the status, and the linters folded in any other
\* order give the same status.
C11_StatusIsDominanceFold ==
    /\ Aggregated => status = DominantStatus(linters)
    /\ \A k \in 1..Len(linters) : Rank(StatusAfter(k - 1)) <= Rank(StatusAfter(k))
    /\ \A p \in Orderings(Len(linters)) :
          FoldStatus(InitialVerdict, [ i \in DOMAIN linters |-> linters[p[i]] ]).status
             = DominantStatus(linters)

\* A blocking error is followed in the registry by a non blocking one, and the
\* status is still "error".
C11_Witness ==
    /\ pc = "sort_linters"
    /\ status = "error"
    /\ NotSuccess(linters[1]) /\ linters[1].return_code # 0
    /\ \A i \in 2..Len(linters) : NotSuccess(linters[i]) /\ linters[i].return_code = 0

\* The linters with their results, in the order the status loop read them: the
\* order of the registry before the sort for the reports.
FoldOrder == [ i \in DOMAIN linters0 |-> Obj(linters, linters0[i].name) ]

Maximum(S) == CHOOSE x \in S : \A y \in S : y <= x

\* The return code of the last linter of reg that satisfies Blocking, or zero.
LastCode(reg, Blocking(_)) ==
    LET B == { i \in DOMAIN reg : Blocking(reg[i]) }
    IN IF B = {} THEN 0 ELSE reg[Maximum(B)].return_code

NonZeroCode(l) == l.return_code # 0
PositiveCode(l) == l.return_code > 0

\* C12: after the aggregation the return code of the run is the return code of
\* the last linter, in registry order, whose return code is not zero (negative
\* included), and it is zero exactly when every linter has the return code zero.
C12_ExitCodeOfLastNonZero ==
    Aggregated =>
        /\ return_code = LastCode(FoldOrder, NonZeroCode)
        /\ return_code = 0 <=> \A i \in DOMAIN linters : linters[i].return_code = 0

\* C13 as stated, for the runs where no linter has a negative return code: the
\* return code of the run is the maximum of the non-zero return codes of the
\* linters, or zero when there is none.
C13_ExitCodeIsMaximum ==
    (Aggregated /\ \A i \in DOMAIN linters : linters[i].return_code >= 0) =>
        LET codes == { linters[i].return_code : i \in DOMAIN linters } \ { 0 }
        IN return_code = IF codes = {} THEN 0 ELSE Maximum(codes)

\* C13 amended: the return code of the run is the return code of the last
\* linter, in registry order, whose return code is greater than zero, or zero
\* when there is none; it is not the maximum.
C13_ExitCodeOfLastPositive ==
    Aggregated => return_code = LastCode(FoldOrder, PositiveCode)

\* A linter with return code 2 is followed in the registry by one with return
\* code 1, the last with a positive code: the run has the return code 1.
C13_Witness ==
    /\ Aggregated
    /\ \E i, j \in DOMAIN FoldOrder :
          /\ i < j
          /\ FoldOrder[i].return_code = 2
          /\ FoldOrder[j].return_code = 1
          /\ \A k \in DOMAIN FoldOrder : k > j => FoldOrder[k].return_code <= 0
    /\ return_code = 1

\* ---------------------------------------------- claims about the exit code
\* check_results is over: sys.exit was called, or run() returned.
Ended == pc \in { "exited", "returned" }
Exited == pc = "exited"

\* The exit code of the process: the argument of sys.exit, or zero when run()
\* returns and the interpreter ends normally.
ProcessExitCode == IF Exited THEN exit_code ELSE 0

UpdatedSourcesFail == has_updated_sources > 0 /\ fail_if_updated_sources

\* C14 as stated: when sources were updated and FAIL_IF_UPDATED_SOURCES is set,
\* the run ends with a non-zero exit code, whatever the status.
C14_UpdatedSourcesAlwaysFail ==
    (Ended /\ UpdatedSourcesFail) => (Exited /\ exit_code # 0)

\* C14 amended: when sources were updated and FAIL_IF_UPDATED_SOURCES is set, a
\* run with the status success or warning ends with sys.exit(1); with the
\* status error the updated sources are not looked at: the process exits only
\* when cli is set, with zero under DISABLE_ERRORS and else with the return code.
C14_UpdatedSourcesFailUnlessError ==
    (Ended /\ UpdatedSourcesFail) =>
        IF status \in { "success", "warning" }
        THEN Exited /\ exit_code = 1
        ELSE /\ Exited <=> cli
             /\ exit_code = IF cli /\ ~DISABLE_ERRORS THEN return_code ELSE 0

\* A run with ignored errors only, that updated sources under the policy, has
\* exited with 1.
C14_Witness ==
    /\ Exited
    /\ status = "warning"
    /\ UpdatedSourcesFail
    /\ exit_code = 1

NoNegativeCode == \A i \in DOMAIN linters : linters[i].return_code >= 0

\* C15 as stated, for the runs where no linter has a negative return code: a
\* run with the status error ends the process with a non-zero exit code, the
\* return code of the last linter with a non-zero return code.
C15_ErrorExitsNonZero ==
    (Ended /\ status = "error" /\ NoNegativeCode) =>
        /\ Exited
        /\ exit_code # 0
        /\ exit_code = LastCode(FoldOrder, NonZeroCode)

\* C15 amended: a run with the status error ends the process only when cli is
\* set; it then exits with zero under DISABLE_ERRORS, and else with the return
\* code of the last linter, in registry order, whose return code is greater
\* than zero (zero when there is none). Without cli, run() returns.
C15_ErrorExitsWhenCli ==
    (Ended /\ status = "error") =>
        IF cli
        THEN /\ Exited
             /\ exit_code = IF DISABLE_ERRORS THEN 0 ELSE LastCode(FoldOrder, PositiveCode)
        ELSE pc = "returned"

\* The command line run has exited with the code of the last failed linter,
\* which an earlier linter with another code precedes.
C15_Witness ==
    /\ Exited
    /\ status = "error"
    /\ cli /\ ~DISABLE_ERRORS
    /\ exit_code = 1
    /\ \E i, j \in DOMAIN FoldOrder :
          i < j /\ FoldOrder[i].return_code = 2 /\ FoldOrder[j].return_code = 1

\* C16: a run with the status success or warning ends with the exit code zero,
\* except exactly when sources were updated and FAIL_IF_UPDATED_SOURCES is set:
\* then it ends with a non-zero exit code.
C16_SuccessExitsZeroUnlessUpdated ==
    (Ended /\ status \in { "success", "warning" }) =>
        IF UpdatedSourcesFail
        THEN Exited /\ exit_code # 0
        ELSE ProcessExitCode = 0

\* A run with ignored errors that updated sources, without the policy: run()
\* has returned.
C16_Witness ==
    /\ pc = "returned"
    /\ status = "warning"
    /\ has_updated_sources > 0
    /\ ~fail_if_updated_sources

\* --------------------------------------- claims about the sort for reports
NameOrder(reg) == [ i \in DOMAIN reg |-> reg[i].name ]

\* C17: the sort of the registry by (descriptor_id, name) comes after the
\* status loop (until then the registry is in its load order), and the step
\* that sorts leaves the status, the return code and has_updated_sources as
\* the loop computed them, and keeps the same linter objects with the same
\* result state, none added and none removed.
C17_SortIsDisplayOnly ==
    /\ [](pc = "update_status" => NameOrder(linters) = NameOrder(linters0))
    /\ [][ pc = "sort_linters" =>
             /\ status' = status
             /\ return_code' = return_code
             /\ has_updated_sources' = has_updated_sources
             /\ Len(linters') = Len(linters)
             /\ Range(linters') = Range(linters) ]_vars

\* The sort has changed the order of the registry, and the status loop run on
\* the new order would give another return code than the one of the run.
C17_Witness ==
    /\ pc = "reports"
    /\ NameOrder(linters) # NameOrder(linters0)
    /\ FoldStatus(InitialVerdict, linters).return_code # return_code

\* ------------------------------------------- claims about the workspace
Resolved == pc = "init_config"
Fatal == pc = "fatal"
Input == CHOOSE a \in arg_input : TRUE
InContainer(p) == DEFAULT_DOCKER_WORKSPACE_DIR \o Sep \o p
Exists(p) == IsDir(p, dirs)

\* The path given to os.path.isdir by the test that let the rule return.
TestedBy(rule) ==
    CASE rule = 1 -> IF Exists(Input) THEN Input ELSE InContainer(Input)
      [] rule = 2 -> github_workspace \o DEFAULT_DOCKER_WORKSPACE_DIR
      [] rule = 3 -> InContainer(default_workspace)
      [] rule = 4 -> default_workspace
      [] rule = 5 -> DEFAULT_DOCKER_WORKSPACE_DIR
      [] rule = 6 -> github_workspace \o Sep \o default_workspace
      [] rule = 7 -> github_workspace

\* C18: when get_workspace returns, the path it returns is an existing
\* directory, the one that the rule which returned had tested.
C18_ReturnedPathIsTestedDirectory ==
    Resolved => (Exists(workspace) /\ workspace = TestedBy(ws_rule))

\* The predicate of the rules 2 to 7 on the two variables, and their targets.
RuleApplies(rule) ==
    CASE rule = 2 -> default_workspace = "" /\ github_workspace # ""
      [] rule = 3 -> default_workspace # ""
      [] rule = 4 -> default_workspace # ""
      [] rule = 5 -> TRUE
      [] rule = 6 -> default_workspace # "" /\ github_workspace # ""
      [] rule = 7 -> default_workspace = "" /\ github_workspace # "" /\ github_workspace # "/"

Matching == { rule \in 2..7 : RuleApplies(rule) /\ Exists(TestedBy(rule)) }
FirstMatching == CHOOSE rule \in Matching : \A other \in Matching : rule <= other

\* C19: without input argument, get_workspace returns the target of the first
\* of the rules 2 to 7, in this order, whose predicate holds and whose target
\* exists; a later rule is never taken while an earlier one matches.
C19_FirstMatchingRuleWins ==
    (arg_input = {} /\ Matching # {} /\ pc # "get_workspace") =>
        /\ Resolved
        /\ ws_rule = FirstMatching
        /\ workspace = TestedBy(FirstMatching)

\* C20: with an input argument, get_workspace returns it when it is a
\* directory, else the path of the same name under the container's directory
\* when that is a directory, and else fails, also when one of the rules 2 to 7
\* matches: the result is never one of their targets.
C20_InputNeverFallsThrough ==
    (arg_input # {} /\ pc # "get_workspace") =>
        IF Exists(Input) THEN Resolved /\ workspace = Input
        ELSE IF Exists(InContainer(Input)) THEN Resolved /\ workspace = InContainer(Input)
        ELSE Fatal

\* The input directory is found nowhere, the construction has failed, and a
\* rule without input argument matches.
C20_Witness ==
    /\ Fatal
    /\ arg_input # {}
    /\ Matching # {}

\* The text t occurs in the text s.
Contains(s, t) ==
    \E i \in 1..(Len(s) - Len(t) + 1) : SubSeq(s, i, i + Len(t) - 1) = t

\* C21: when there is no input argument and none of the rules 2 to 7 matches,
\* get_workspace raises an error whose message names the value of
\* DEFAULT_WORKSPACE and the value of GITHUB_WORKSPACE, and the program ends
\* there: no linter is loaded in the registry and none has run.
C21_NoWorkspaceIsFatalAndNamesSignals ==
    (arg_input = {} /\ pc # "get_workspace") =>
        /\ Fatal <=> Matching = {}
        /\ Fatal =>
              /\ Contains(error, "DEFAULT_WORKSPACE: " \o default_workspace \o "\n")
              /\ Contains(error, "GITHUB_WORKSPACE: " \o github_workspace)
              /\ linters = << >>
              /\ \A n \in Names : runs[n] = << >>
              /\ ~ENABLED Next

\* No rule matches although both variables are set, and the program has ended
\* with the error.
C21_Witness ==
    /\ Fatal
    /\ arg_input = {}
    /\ default_workspace = "w"
    /\ github_workspace = "/g"
    /\ dirs # {}

\* ------------------------------------------ claims about the file listing
Collected == pc \notin { "collect_files", "crashed" }
Crashed == pc = "crashed"
Incremental == FILES_TO_LINT = << >> /\ ~VALIDATE_ALL_CODEBASE
NoDuplicate(s) == \A i, j \in DOMAIN s : s[i] = s[j] => i = j
Ascending(s) == \A i, j \in DOMAIN s : i < j => PathLess(s[i], s[j])

\* What listing all the files of the workspace gives after sorted(set(...)):
\* the files that are not under an excluded directory, in ascending order.
FullScanResult == SortedList({ p \in tree : DirName(p) \notin ExcludedDirectories })

\* C22: when the files are listed with git diff and git says that the
\* directory is not a repository, the list of files is the one that the
\* listing of all the files gives for this workspace, and
\* validate_all_code_base is True from then on, to the end of the run.
C22_NotARepositoryFallsBackToFullScan ==
    (Incremental /\ git.repo = "invalid" /\ pc # "collect_files") =>
        /\ ~Crashed
        /\ all_files = FullScanResult
        /\ validate_all_code_base

\* The run of a workspace with files, listed by the fallback, has ended.
C22_Witness ==
    /\ Incremental
    /\ git.repo = "invalid"
    /\ pc = "returned"
    /\ Len(all_files) > 1
    /\ validate_all_code_base

\* A git command of list_files_git_diff fails: git.Repo (not a repository, or
\* no such path), git fetch of the default branch, or git diff.
GitDiffFails ==
    \/ git.repo # "ok"
    \/ ~git.cached /\ ~git.fetch_ok
    \/ ~git.diff_ok

\* C23: every git error raised while the files are listed with git diff is
\* recovered: a warning is logged, all the files are listed instead, and the
\* run goes on.
C23_EveryGitErrorIsRecovered ==
    (Incremental /\ GitDiffFails /\ pc # "collect_files") =>
        /\ ~Crashed
        /\ SwitchToValidateAll \in log
        /\ all_files = FullScanResult

\* The lookup of the git ignored files fails: git.Repo or git ls-files.
IgnoreLookupFails == git.repo # "ok" \/ ~git.ls_ok

\* The listing with git diff fails with an error that collect_files does not
\* catch; the ignored files are then never looked up.
DiffAborts == Incremental /\ GitDiffFails /\ git.repo # "invalid"

\* C24: with ignore_gitignore_files, a lookup of the git ignored files that
\* fails with any error leaves the empty list and a warning, and the files are
\* filtered and the run goes on; without ignore_gitignore_files, git is not
\* asked for the ignored files.
C24_IgnoreLookupErrorsGiveEmptyList ==
    (pc # "collect_files" /\ ~DiffAborts) =>
        /\ Collected
        /\ (ignore_gitignore_files /\ IgnoreLookupFails) =>
              /\ ignored_files = << >>
              /\ UnableToListIgnored \in log
              /\ filtered_files = all_files
        /\ ~ignore_gitignore_files =>
              /\ "ls-files" \notin git_calls
              /\ ~Incremental => git_calls = {}
              /\ ignored_files = << >>

\* git ls-files has failed in a repository, and the run has ended with files
\* that were filtered.
C24_Witness ==
    /\ pc = "returned"
    /\ ignore_gitignore_files
    /\ git.repo = "ok" /\ ~git.ls_ok
    /\ UnableToListIgnored \in log
    /\ Len(filtered_files) > 1

\* C25: however the files are listed (the files sent as input, git diff, all
\* the files, and all the files after git diff said "not a repository"), the
\* list given to the filter is in ascending order without duplicate, and holds
\* the files that the listing found.
C25_AllFilesSortedWithoutDuplicate ==
    Collected =>
        /\ NoDuplicate(all_files)
        /\ Ascending(all_files)
        /\ Range(all_files) =
              IF FILES_TO_LINT # << >> THEN Range(FILES_TO_LINT) \cap tree
              ELSE IF Incremental /\ git.repo = "ok" THEN Range(git.diff) \cap tree
              ELSE Range(FullScanResult)

\* All the files were listed, those of the root twice, and the list given to
\* the filter holds each of them once.
C25_Witness ==
    /\ Collected
    /\ FILES_TO_LINT = << >> /\ VALIDATE_ALL_CODEBASE
    /\ ~NoDuplicate(ListFilesAll(tree))
    /\ Len(all_files) = Cardinality(Range(ListFilesAll(tree)))
    /\ Len(all_files) > 1
\* ------------------------------------------------ claims on file assignment
\* The linter has no file and does not declare lint_all_files.
Unmatched(l) == Len(l.files) = 0 /\ ~l.lint_all_files

\* No call of run() was made on linter n, none is pending: n is not in the
\* list handed to the scheduler nor in a group of the pool.
NeverRun(n) ==
    /\ runs[n] = << >>
    /\ n \notin Range(active_linters)
    /\ \A g \in DOMAIN tasks : \A i \in DOMAIN tasks[g].linters :
          tasks[g].linters[i].name # n

\* The linter's result state is the one it was loaded with.
NoResult(l) == l.status = "success" /\ l.return_code = 0 /\ l.number_fixed = 0 /\ l.ran = 0

\* C26: from the end of collect_files to the end of the run, a linter that has
\* no file and does not declare lint_all_files is inactive, is not run by
\* process_linters_serial nor by the pool, and is no error: no exception ended
\* the program and the linter's result state is untouched.
C26_UnmatchedLinterIsDeactivatedAndNeverRun ==
    Collected =>
        \A k \in DOMAIN linters :
            Unmatched(linters[k]) =>
                /\ ~linters[k].is_active
                /\ NeverRun(linters[k].name)
                /\ NoResult(linters[k])
                /\ error = ""

\* The run ended in parallel mode: a linter without file was left out, two
\* others were run, one of them without file but with lint_all_files.
C26_Witness ==
    /\ pc \in { "exited", "returned" }
    /\ mode = "parallel"
    /\ \E k \in DOMAIN linters : Unmatched(linters[k]) /\ ~linters[k].is_active
    /\ \E k \in DOMAIN linters :
          /\ linters[k].lint_all_files
          /\ Len(linters[k].files) = 0
          /\ runs[linters[k].name] # << >>
    /\ \E k \in DOMAIN linters : Len(linters[k].files) > 0 /\ runs[linters[k].name] # << >>

\* ---------------------------------------------------- claims on termination
\* Every linter handed to the scheduler has been run once and its result is
\* in the registry.
Completed ==
    \A n \in Range(active_linters) : Len(runs[n]) = 1 /\ Obj(linters, n).ran = 1

\* The status loop of run() is reached, the scheduler has returned.
AtAggregation == pc = "update_status"

\* C27: when every call of Linter.run() returns, the scheduler, serial or
\* parallel, with any number of groups, returns to run() with every active
\* linter run; and the parallel scheduler has no timeout: it returns only when
\* every group has returned, so a group that never returns keeps it waiting.
C27_SchedulerReturnsWhenEveryLinterReturns ==
    /\ (pc = "dispatch") ~> (AtAggregation /\ Completed)
    /\ [][(pc = "parallel" /\ pc' # "parallel") =>
            \A g \in DOMAIN tasks : tasks[g].at = "returned"]_vars

\* The pool returned every group of a run with more groups than processes.
C27_Witness ==
    /\ AtAggregation
    /\ mode = "parallel"
    /\ Len(tasks) > pool
    /\ Completed

\* ------------------------------------------ claims on the scheduling modes
\* The result state of a linter of the registry: the one its run() call left,
\* or the one it was loaded with.
ResultOf(l) ==
    IF runs[l.name] = << >> THEN l ELSE Ran(l, runs[l.name][Len(runs[l.name])])

\* The verdict of the status loop on the registry as the scheduler received
\* it, each linter with its result state: a function of the registry and of
\* the results, not of the mode nor of the order in which the groups returned.
VerdictOfResults ==
    FoldStatus(InitialVerdict, [ i \in DOMAIN linters0 |-> ResultOf(linters0[i]) ])

\* Registry positions i < j whose linters are in groups read in the other
\* order.
GroupsAgainstRegistry ==
    \E i, j \in DOMAIN linters0 : \E g, h \in DOMAIN tasks :
        /\ i < j
        /\ g < h
        /\ \E x \in DOMAIN tasks[g].linters : tasks[g].linters[x].name = linters0[j].name
        /\ \E y \in DOMAIN tasks[h].linters : tasks[h].linters[y].name = linters0[i].name

\* C28: in serial and in parallel mode, whatever the order in which the groups
\* ran and returned, status, return_code and has_updated_sources after the
\* status loop are those of the loop over the registry in registry order with
\* each linter's own result: the same results give the same verdict in both
\* modes.
C28_VerdictIsFoldOfResultsInRegistryOrder ==
    Aggregated =>
        /\ status = VerdictOfResults.status
        /\ return_code = VerdictOfResults.return_code
        /\ has_updated_sources = VerdictOfResults.has_updated_sources

\* A parallel run where a group returned before an earlier one, the groups
\* are read against the registry order, and two linters left different
\* blocking return codes: the return code is the one of the later linter of
\* the registry.
C28_Witness ==
    /\ Aggregated
    /\ mode = "parallel"
    /\ reordered
    /\ GroupsAgainstRegistry
    /\ \E i, j \in DOMAIN linters0 :
          /\ i < j
          /\ ResultOf(linters0[i]).return_code = 1
          /\ ResultOf(linters0[j]).return_code = 2
          /\ \A k \in DOMAIN linters0 : k > j => ResultOf(linters0[k]).return_code = 0
          /\ return_code = 2

\* ------------------------------------------------- claims on the git header
\* The program has ended: check_results returned or called sys.exit, or an
\* exception left run().
ProcessEnded == pc \in { "exited", "returned", "crashed" }

\* C29: when list_files_git_diff has written the authorization header into
\* the git configuration (has_git_extraheader is True), the header is empty
\* again when check_results decides on the exit and when the program has
\* ended.
C29_HeaderIsResetBeforeProcessEnds ==
    (has_git_extraheader /\ (pc = "check_results" \/ ProcessEnded)) => extraheader = ""

====
